---- MODULE Spec2Model ----
(***************************************************************************)
(* Model of the Stock Volume Tracker (src/app.py): the sqlite credential   *)
(* and watchlist store, the Streamlit session, the cached analyze_stock    *)
(* metric derivation and the refresh loop / table rendering of             *)
(* run_volume_tracker.                                                     *)
(*                                                                         *)
(* Numbers: pandas works on float64.  The model keeps exact rationals      *)
(* (records num/den, den > 0, in lowest terms) plus NaN, which is what the *)
(* float computations yield up to rounding noise; NaN compares false with  *)
(* everything, as in IEEE 754.                                             *)
(***************************************************************************)
EXTENDS Integers, Sequences, FiniteSets

(***************************************************************************)
(* Bounds of the model and inputs the user or the data provider supplies.  *)
(***************************************************************************)
MaxRows == 2

Usernames == {"pranav", "guest"}

Passwords == {"learn to code", "wrong"}

Symbols == {"X", "Y"}

\* What is typed into the login form when Register is clicked.
Registrations == {<< "pranav", "learn to code" >>, << "pranav", "wrong" >>,
                  << "guest", "wrong" >>}

SymbolInputs == {"", "x", "X", "y"}

\* Python's None where an owner id is expected: sqlite rowids start at 1, and
\* login() tests the id with "if user_id:", so 0 stands for it.
None == 0

NoSeries == "-"

(***************************************************************************)
(* Exact arithmetic standing for float64.                                  *)
(***************************************************************************)
Abs(n) == IF n < 0 THEN -n ELSE n

RECURSIVE Gcd(_, _)
Gcd(a, b) == IF b = 0 THEN a ELSE Gcd(b, a % b)

NaN == [nan |-> TRUE, num |-> 0, den |-> 1]

Q(n, d) ==
    IF d = 0 THEN NaN
    ELSE LET g == Gcd(Abs(n), Abs(d))
             s == IF d < 0 THEN -1 ELSE 1
         IN  [nan |-> FALSE, num |-> s * (n \div g), den |-> s * (d \div g)]

IsNaN(a) == a.nan

QSub(a, b) == IF a.nan \/ b.nan THEN NaN
              ELSE Q(a.num * b.den - b.num * a.den, a.den * b.den)

\* 0/0 is NaN; x/0 with x # 0 is +-inf, which no series of the model produces
\* (volumes are non-negative and closes positive), so it is folded into NaN.
QDiv(a, b) == IF a.nan \/ b.nan \/ b.num = 0 THEN NaN
              ELSE Q(a.num * b.den, a.den * b.num)

QTimes(a, k) == IF a.nan THEN NaN ELSE Q(a.num * k, a.den)

\* IEEE comparisons: any comparison with NaN is false.
QGt(a, b) == ~a.nan /\ ~b.nan /\ a.num * b.den > b.num * a.den

QGe(a, b) == ~a.nan /\ ~b.nan /\ a.num * b.den >= b.num * a.den

QEq(a, b) == ~a.nan /\ ~b.nan /\ a.num * b.den = b.num * a.den

Zero == Q(0, 1)

\* numpy rint: round half to even, of the rational n/d with d > 0.
RoundHalfEven(n, d) ==
    LET q == n \div d
        r == n % d
    IN  IF 2 * r < d THEN q
        ELSE IF 2 * r > d THEN q + 1
        ELSE IF q % 2 = 0 THEN q ELSE q + 1

\* Series.round(decimals): rint(x * 10^decimals) / 10^decimals; NaN stays NaN.
Pow10(k) == IF k = 0 THEN 1 ELSE IF k = 1 THEN 10 ELSE 100

Round(a, decimals) ==
    IF a.nan THEN NaN
    ELSE Q(RoundHalfEven(a.num * Pow10(decimals), a.den), Pow10(decimals))

(***************************************************************************)
(* PriceSeries: what stock.history(period="1y") returns.  A row is         *)
(* [date, close, volume]: date is the day number relative to January 1 of  *)
(* the current UTC year (negative: last year), close is in thousandths of  *)
(* the currency unit, rows ascend by date.  The provider can answer a      *)
(* fetch with any of the named series below.                               *)
(***************************************************************************)
Window == 10

ytd_start == 0

Bar(d, c, v) == [date |-> d, close |-> c, volume |-> v]

SeriesNames == {"Empty", "ConstA", "ConstB", "Spike", "Tiny", "Short", "Stale"}

History(name) ==
    CASE name = "Empty"  -> << >>
      [] name = "ConstA" -> [i \in 1..11 |-> Bar(i - 6, 100000, 1000)]
      [] name = "ConstB" -> [i \in 1..10 |-> Bar(i - 3, 7125, 3)]
      [] name = "Spike"  -> [i \in 1..10 |->
                               Bar(i, IF i = 10 THEN 50500 ELSE 50000,
                                      IF i = 10 THEN 200 ELSE 100)]
      [] name = "Tiny"   -> [i \in 1..10 |->
                               Bar(i - 4, IF i = 10 THEN 25001 ELSE 25000,
                                          IF i = 10 THEN 20001 ELSE 20000)]
      [] name = "Short"  -> << Bar(1, 20000, 500), Bar(2, 21000, 700),
                               Bar(3, 20000, 900) >>
      [] name = "Stale"  -> [i \in 1..10 |-> Bar(i - 21, 30000 + i, 400 + i)]

(***************************************************************************)
(* analyze_stock (the function under the st.cache_data decorator).         *)
(***************************************************************************)
RECURSIVE SumVolume(_, _, _)
SumVolume(hist, from, to) ==
    IF from > to THEN 0 ELSE hist[from].volume + SumVolume(hist, from + 1, to)

\* hist['Volume'].rolling(window=10).mean() at row i: NaN for the first 9 rows.
RollingMean(hist, i) ==
    IF i < Window THEN NaN ELSE Q(SumVolume(hist, i - Window + 1, i), Window)

\* (hist['Volume'] - hist['Avg_Volume']) / hist['Avg_Volume'] * 100 at row i.
VolumeChange(hist, i) ==
    LET avg == RollingMean(hist, i)
    IN  QTimes(QDiv(QSub(Q(hist[i].volume, 1), avg), avg), 100)

\* Variant: the ratio of the closes taken for their relative change.
DailyChange_Ratio(hist, i) ==
    IF i = 1 THEN NaN
    ELSE QTimes(QDiv(Q(hist[i].close, 1), Q(hist[i - 1].close, 1)), 100)

\* hist['Close'].pct_change() * 100 at row i: NaN for the first row.
DailyChange(hist, i) ==
    IF i = 1 THEN NaN
    ELSE QTimes(QSub(QDiv(Q(hist[i].close, 1), Q(hist[i - 1].close, 1)), Q(1, 1)), 100)

\* hist.loc[hist.index >= ytd_start, 'Close']: the positions selected.
YtdRows(hist) == {i \in 1..Len(hist) : hist[i].date >= ytd_start}

Min(S) == CHOOSE m \in S : \A x \in S : m <= x

NoRow == [Symbol |-> "", Close |-> NaN, Daily_Change |-> NaN, YTD_Return |-> NaN,
          Volume |-> 0, Avg_Volume |-> NaN, Volume_Change |-> NaN, Date |-> 0]

\* Variant: a series with no row of the current year falls back to its first row
\* instead of raising.
analyze_stock_FirstRowFallback(symbol, hist) ==
    IF Len(hist) = 0 THEN [kind |-> "none", row |-> NoRow]
    ELSE LET last == Len(hist)
             first == IF YtdRows(hist) = {} THEN 1 ELSE Min(YtdRows(hist))
             ytd_start_price == Q(hist[first].close, 1000)
             close == Q(hist[last].close, 1000)
             ytd_return == QTimes(QDiv(QSub(close, ytd_start_price), ytd_start_price), 100)
         IN  [kind |-> "row",
              row  |-> [Symbol        |-> symbol,
                        Close         |-> close,
                        Daily_Change  |-> DailyChange(hist, last),
                        YTD_Return    |-> ytd_return,
                        Volume        |-> hist[last].volume,
                        Avg_Volume    |-> RollingMean(hist, last),
                        Volume_Change |-> VolumeChange(hist, last),
                        Date          |-> hist[last].date]]

analyze_stock(symbol, hist) ==
    IF Len(hist) = 0 THEN [kind |-> "none", row |-> NoRow]
    ELSE IF YtdRows(hist) = {} THEN [kind |-> "error", row |-> NoRow]   \* .iloc[0] raises IndexError
    ELSE LET last == Len(hist)
             ytd_start_price == Q(hist[Min(YtdRows(hist))].close, 1000)
             close == Q(hist[last].close, 1000)
             ytd_return == QTimes(QDiv(QSub(close, ytd_start_price), ytd_start_price), 100)
         IN  [kind |-> "row",
              row  |-> [Symbol        |-> symbol,
                        Close         |-> close,
                        Daily_Change  |-> DailyChange(hist, last),
                        YTD_Return    |-> ytd_return,
                        Volume        |-> hist[last].volume,
                        Avg_Volume    |-> RollingMean(hist, last),
                        Volume_Change |-> VolumeChange(hist, last),
                        Date          |-> hist[last].date]]

(***************************************************************************)
(* State.                                                                  *)
(*   users, user_symbols   the two tables of stock_tracker.db, in rowid    *)
(*                         order                                           *)
(*   logged_in, user_id    st.session_state                                *)
(*   cache                 st.cache_data's entries for analyze_stock,      *)
(*                         keyed by symbol; series records which provider  *)
(*                         answer the cached value was computed from       *)
(*   pc                    position of the running script: "idle" (waiting *)
(*                         for a click), "analyze" (loop of lines 164-167),*)
(*                         "sort" (169-172), "format" (174-214)            *)
(*   symbols, idx, results locals of run_volume_tracker's main logic       *)
(*   analyzed              the calls of analyze_stock made by this run     *)
(*   df, metrics, status,  what the page shows                             *)
(*   notice                                                                *)
(*   logout_clicked        whether this run was triggered by Logout        *)
(***************************************************************************)
VARIABLES users, user_symbols, logged_in, user_id, cache, pc, symbols, idx,
          results, analyzed, df, metrics, status, notice, logout_clicked

vars == << users, user_symbols, logged_in, user_id, cache, pc, symbols, idx,
           results, analyzed, df, metrics, status, notice, logout_clicked >>

db == << users, user_symbols >>

session == << logged_in, user_id >>

run == << symbols, idx, results, analyzed, df, metrics >>

NoMetrics == [total |-> 0, positive_daily |-> 0, positive_volume |-> 0]

NoEntry == [series |-> NoSeries, value |-> [kind |-> "none", row |-> NoRow]]

(***************************************************************************)
(* The store: init_db's schema and the functions over it.                  *)
(***************************************************************************)
\* SHA-256 hex digest: deterministic and collision-free on the inputs used.
hash_password(password) == << "sha256", password >>

\* users: id INTEGER PRIMARY KEY (rowid, assigned max + 1), username UNIQUE.
UsersIntegrityError(table, username) ==
    \E i \in 1..Len(table) : table[i].username = username

\* user_symbols declares no UNIQUE / PRIMARY KEY / NOT NULL / CHECK constraint,
\* and sqlite does not enforce the FOREIGN KEY without PRAGMA foreign_keys.
UserSymbolsIntegrityError(table, uid, symbol) == FALSE

NextId(table) == Len(table) + 1

add_user_ok(table, username) == ~UsersIntegrityError(table, username)

add_user(table, username, password) ==
    IF add_user_ok(table, username)
    THEN Append(table, [id |-> NextId(table), username |-> username,
                        password |-> hash_password(password)])
    ELSE table

\* Variant: the stored digest is not compared.
verify_user_IgnoresPassword(table, username, password) ==
    LET found == {i \in 1..Len(table) : table[i].username = username}
    IN  IF found = {} THEN None ELSE table[Min(found)].id

\* SELECT ... WHERE username = ?, fetchone(): the first matching row, if any.
verify_user(table, username, password) ==
    LET found == {i \in 1..Len(table) : table[i].username = username}
    IN  IF found = {} THEN None
        ELSE LET user == table[Min(found)]
             IN  IF user.password = hash_password(password) THEN user.id ELSE None

RECURSIVE SymbolsOf(_, _)
SymbolsOf(table, uid) ==
    IF table = << >> THEN << >>
    ELSE IF Head(table).user_id = uid
         THEN << Head(table).symbol >> \o SymbolsOf(Tail(table), uid)
         ELSE SymbolsOf(Tail(table), uid)

get_user_symbols(table, uid) == SymbolsOf(table, uid)

add_symbol_ok(table, uid, symbol) == ~UserSymbolsIntegrityError(table, uid, symbol)

add_symbol(table, uid, symbol) ==
    IF add_symbol_ok(table, uid, symbol)
    THEN Append(table, [user_id |-> uid, symbol |-> symbol])
    ELSE table

RECURSIVE remove_symbol(_, _, _)
remove_symbol(table, uid, symbol) ==
    IF table = << >> THEN << >>
    ELSE IF Head(table).user_id = uid /\ Head(table).symbol = symbol
         THEN remove_symbol(Tail(table), uid, symbol)
         ELSE << Head(table) >> \o remove_symbol(Tail(table), uid, symbol)

\* str.upper() on the text input.
Upper(text) == CASE text = "x" -> "X" [] text = "y" -> "Y" [] OTHER -> text

Init ==
    /\ users = << >>
    /\ user_symbols = << >>
    /\ logged_in = FALSE
    /\ user_id = None
    /\ cache = [s \in Symbols |-> NoEntry]
    /\ pc = "idle"
    /\ symbols = << >>
    /\ idx = 1
    /\ results = << >>
    /\ analyzed = << >>
    /\ df = << >>
    /\ metrics = NoMetrics
    /\ status = "login"
    /\ notice = ""
    /\ logout_clicked = FALSE

(***************************************************************************)
(* The table step of run_volume_tracker (lines 169-192).                   *)
(***************************************************************************)
\* df['Avg_Volume'].fillna(0).round(0).astype(int)
AvgVolumeInt(a) == IF IsNaN(a) THEN 0 ELSE RoundHalfEven(a.num, a.den)

Frame(rows) ==
    [i \in 1..Len(rows) |-> [rows[i] EXCEPT !.Avg_Volume = AvgVolumeInt(@)]]

Orderings(n) ==
    {p \in [1..n -> 1..n] : \A i, j \in 1..n : p[i] = p[j] => i = j}

\* df.sort_values(by='Volume_Change', ascending=False): kind defaults to
\* 'quicksort', which is not a stable sort, and na_position to 'last'.  The rows
\* with a number come first in descending order, rows with equal numbers in an
\* order the sort leaves open; the NaN rows follow in their original order.
IsSortOrder(rows, p) ==
    LET n == Len(rows)
        key(i) == rows[p[i]].Volume_Change
    IN  /\ \A i, j \in 1..n : (i < j /\ IsNaN(key(i))) => IsNaN(key(j))
        /\ \A i, j \in 1..n : (i < j /\ ~IsNaN(key(i)) /\ ~IsNaN(key(j)))
                                  => QGe(key(i), key(j))
        /\ \A i, j \in 1..n : (i < j /\ IsNaN(key(i)) /\ IsNaN(key(j)))
                                  => p[i] < p[j]

\* Variant: the frame is left in fetch order.
sort_values_Unsorted(rows) == {rows}

\* Variant: the rows without a Volume_Change are dropped by the sort.
sort_values_DropsNaN(rows) ==
    LET kept == {i \in 1..Len(rows) : ~IsNaN(rows[i].Volume_Change)}
    IN  {[i \in 1..Cardinality(kept) |-> rows[p[i]]] :
            p \in {q \in [1..Cardinality(kept) -> kept] :
                      /\ \A i, j \in 1..Cardinality(kept) : q[i] = q[j] => i = j
                      /\ \A i, j \in 1..Cardinality(kept) :
                             i < j => QGe(rows[q[i]].Volume_Change, rows[q[j]].Volume_Change)}}

sort_values(rows) ==
    {[i \in 1..Len(rows) |-> rows[p[i]]] :
        p \in {q \in Orderings(Len(rows)) : IsSortOrder(rows, q)}}

\* Lines 174-183: the rounded columns, the Price string's two numbers, the
\* columns in column_order.
FormatRow(r) ==
    [Symbol        |-> r.Symbol,
     Price         |-> [close |-> Round(r.Close, 2), change |-> Round(r.Daily_Change, 2)],
     Daily_Change  |-> Round(r.Daily_Change, 2),
     Volume_Change |-> Round(r.Volume_Change, 2),
     Volume        |-> r.Volume,
     Avg_Volume    |-> r.Avg_Volume,
     YTD_Return    |-> Round(r.YTD_Return, 2),
     Date          |-> r.Date]

Format(frame) == [i \in 1..Len(frame) |-> FormatRow(frame[i])]

\* Variant: zero counted as positive.
IsPositive_OrZero(x) == QGe(x, Zero)

IsPositive(x) == QGt(x, Zero)

\* Lines 186-192: the three st.metric values, computed on the formatted frame.
Metrics(frame) ==
    [total           |-> Len(frame),
     positive_daily  |-> Cardinality({i \in 1..Len(frame) : IsPositive(frame[i].Daily_Change)}),
     positive_volume |-> Cardinality({i \in 1..Len(frame) : IsPositive(frame[i].Volume_Change)})]

(***************************************************************************)
(* The script.  Every click reruns it from the top; main() dispatches on   *)
(* logged_in.  A run of the login page is one step; a run of the tracker   *)
(* page is the sidebar (one step, with the click that started it), then    *)
(* one step per symbol of the loop, then the table.                        *)
(***************************************************************************)
LogoutShown == logged_in /\ status \in {"table", "no_valid_data", "no_symbols"}

\* Lines 159-161 and 207-214: the main logic starts on the watchlist as stored
\* now; with no symbols the run ends at once, logging out if Logout was clicked.
MainLogic(table, uid, clicked) ==
    /\ symbols' = get_user_symbols(table, uid)
    /\ idx' = 1
    /\ results' = << >>
    /\ analyzed' = << >>
    /\ df' = << >>
    /\ metrics' = NoMetrics
    /\ IF get_user_symbols(table, uid) # << >>
       THEN /\ status' = "running"
            /\ pc' = "analyze"
            /\ logout_clicked' = clicked
            /\ UNCHANGED session
       ELSE /\ pc' = "idle"
            /\ logout_clicked' = FALSE
            /\ IF clicked
               THEN logged_in' = FALSE /\ user_id' = None /\ status' = "login"
               ELSE status' = "no_symbols" /\ UNCHANGED session

ClickLogin(username, password) ==
    /\ pc = "idle" /\ ~logged_in
    /\ LET uid == verify_user(users, username, password)
       IN  IF uid # None
           THEN /\ logged_in' = TRUE
                /\ user_id' = uid
                /\ notice' = "Logged in successfully!"
                \* st.rerun(): the script runs again, now on the tracker page
                /\ symbols' = get_user_symbols(user_symbols, uid)
                /\ idx' = 1
                /\ results' = << >>
                /\ analyzed' = << >>
                /\ df' = << >>
                /\ metrics' = NoMetrics
                /\ logout_clicked' = FALSE
                /\ IF get_user_symbols(user_symbols, uid) = << >>
                   THEN status' = "no_symbols" /\ pc' = "idle"
                   ELSE status' = "running" /\ pc' = "analyze"
           ELSE /\ notice' = "Invalid username or password"
                /\ UNCHANGED << session, pc, run, status, logout_clicked >>
    /\ UNCHANGED << db, cache >>

ClickRegister(username, password) ==
    /\ pc = "idle" /\ ~logged_in
    /\ users' = add_user(users, username, password)
    /\ notice' = (IF add_user_ok(users, username)
                  THEN "User registered successfully! Please log in."
                  ELSE "Username already exists")
    /\ UNCHANGED << user_symbols, session, cache, pc, run, status, logout_clicked >>

ClickAddSymbol(text) ==
    /\ pc = "idle" /\ logged_in
    /\ Upper(text) # "" => Len(user_symbols) < MaxRows
    /\ LET new_symbol == Upper(text)
       IN  IF new_symbol # ""
           THEN /\ user_symbols' = add_symbol(user_symbols, user_id, new_symbol)
                /\ notice' = (IF add_symbol_ok(user_symbols, user_id, new_symbol)
                              THEN "Added" ELSE "already exists")
           ELSE /\ user_symbols' = user_symbols
                /\ notice' = ""
    /\ MainLogic(user_symbols', user_id, FALSE)
    /\ UNCHANGED << users, cache >>

ClickRemoveSymbol(symbol_to_remove) ==
    /\ pc = "idle" /\ logged_in
    /\ \E i \in 1..Len(user_symbols) :
          user_symbols[i] = [user_id |-> user_id, symbol |-> symbol_to_remove]
    /\ user_symbols' = remove_symbol(user_symbols, user_id, symbol_to_remove)
    /\ notice' = "Removed"
    /\ MainLogic(user_symbols', user_id, FALSE)
    /\ UNCHANGED << users, cache >>

ClickUpdateData ==
    /\ pc = "idle" /\ logged_in
    /\ cache' = [s \in Symbols |-> NoEntry]
    /\ notice' = ""
    /\ MainLogic(user_symbols, user_id, FALSE)
    /\ UNCHANGED db

ClickLogout ==
    /\ pc = "idle" /\ LogoutShown
    /\ notice' = ""
    /\ MainLogic(user_symbols, user_id, TRUE)
    /\ UNCHANGED << db, cache >>

\* st.cache_data(ttl=3600): an entry expires between two runs.
CacheExpire(symbol) ==
    /\ pc = "idle"
    /\ cache[symbol].series # NoSeries
    /\ cache' = [cache EXCEPT ![symbol] = NoEntry]
    /\ UNCHANGED << db, session, pc, run, status, notice, logout_clicked >>

\* Variant: the loop catches the exception of one symbol and goes on to the next.
LoopBody_CatchesError(symbol, series, data) ==
    /\ analyzed' = Append(analyzed, [symbol |-> symbol, series |-> series, kind |-> data.kind])
    /\ results' = (IF data.kind = "row" THEN Append(results, data.row) ELSE results)
    /\ idx' = idx + 1
    /\ UNCHANGED << pc, status, logout_clicked >>
    /\ UNCHANGED << db, session, symbols, df, metrics, notice >>

\* One iteration of the loop, lines 164-167, given what analyze_stock returned.
LoopBody(symbol, series, data) ==
    /\ analyzed' = Append(analyzed, [symbol |-> symbol, series |-> series, kind |-> data.kind])
    /\ IF data.kind = "error"
       THEN \* the exception leaves run_volume_tracker and main(): the run ends
            /\ pc' = "idle"
            /\ status' = "exception"
            /\ logout_clicked' = FALSE
            /\ UNCHANGED << idx, results >>
       ELSE /\ results' = (IF data.kind = "row" THEN Append(results, data.row) ELSE results)
            /\ idx' = idx + 1
            /\ UNCHANGED << pc, status, logout_clicked >>
    /\ UNCHANGED << db, session, symbols, df, metrics, notice >>

AnalyzeCached ==
    /\ pc = "analyze" /\ idx <= Len(symbols)
    /\ cache[symbols[idx]].series # NoSeries
    /\ LoopBody(symbols[idx], cache[symbols[idx]].series, cache[symbols[idx]].value)
    /\ UNCHANGED cache

AnalyzeFetch(series) ==
    /\ pc = "analyze" /\ idx <= Len(symbols)
    /\ cache[symbols[idx]].series = NoSeries
    /\ LET data == analyze_stock(symbols[idx], History(series))
       IN  /\ LoopBody(symbols[idx], series, data)
           /\ cache' = (IF data.kind = "error" THEN cache
                        ELSE [cache EXCEPT ![symbols[idx]] =
                                  [series |-> series, value |-> data]])

\* Variant: logout forgets to reset user_id.
LogoutAndRerun_KeepsUserId ==
    /\ logged_in' = FALSE
    /\ user_id' = user_id
    /\ pc' = "idle"
    /\ logout_clicked' = FALSE
    /\ status' = "login"
    /\ symbols' = << >>
    /\ idx' = 1
    /\ results' = << >>
    /\ analyzed' = << >>
    /\ df' = << >>
    /\ metrics' = NoMetrics

\* Lines 210-214, then the rerun on the login page: the tracker page is gone.
LogoutAndRerun ==
    /\ logged_in' = FALSE
    /\ user_id' = None
    /\ pc' = "idle"
    /\ logout_clicked' = FALSE
    /\ status' = "login"
    /\ symbols' = << >>
    /\ idx' = 1
    /\ results' = << >>
    /\ analyzed' = << >>
    /\ df' = << >>
    /\ metrics' = NoMetrics

LoopExit ==
    /\ pc = "analyze" /\ idx > Len(symbols)
    /\ IF results # << >>
       THEN /\ pc' = "sort"
            /\ UNCHANGED << session, run, status, logout_clicked >>
       ELSE IF logout_clicked
       THEN LogoutAndRerun
       ELSE /\ status' = "no_valid_data"
            /\ pc' = "idle"
            /\ UNCHANGED << session, run, logout_clicked >>
    /\ UNCHANGED << db, cache, notice >>

Sort ==
    /\ pc = "sort"
    /\ df' \in sort_values(Frame(results))
    /\ pc' = "format"
    /\ UNCHANGED << db, session, cache, symbols, idx, results, analyzed, metrics,
                    status, notice, logout_clicked >>

FormatAndShow ==
    /\ pc = "format"
    /\ IF logout_clicked
       THEN LogoutAndRerun
       ELSE /\ df' = Format(df)
            /\ metrics' = Metrics(Format(df))
            /\ status' = "table"
            /\ pc' = "idle"
            /\ UNCHANGED << session, symbols, idx, results, analyzed, logout_clicked >>
    /\ UNCHANGED << db, cache, notice >>

Next ==
    \/ \E u \in Usernames, p \in Passwords : ClickLogin(u, p)
    \/ \E r \in Registrations : ClickRegister(r[1], r[2])
    \/ \E t \in SymbolInputs : ClickAddSymbol(t)
    \/ \E s \in Symbols : ClickRemoveSymbol(s)
    \/ ClickUpdateData
    \/ ClickLogout
    \/ \E s \in Symbols : CacheExpire(s)
    \/ AnalyzeCached
    \/ \E n \in SeriesNames : AnalyzeFetch(n)
    \/ LoopExit
    \/ Sort
    \/ FormatAndShow

Spec == Init /\ [][Next]_vars

(***************************************************************************)
(* Helpers of the properties below.                                        *)
(***************************************************************************)
Watchlist(uid) == get_user_symbols(user_symbols, uid)

Occurrences(seq, x) == Cardinality({i \in 1..Len(seq) : seq[i] = x})

RowsFor(frame, symbol) == Cardinality({i \in 1..Len(frame) : frame[i].Symbol = symbol})

\* The provider's answer the run used for a symbol (one per symbol: the second
\* call for a symbol is served from the cache).
FetchedFor(symbol) ==
    LET i == Min({j \in 1..Len(analyzed) : analyzed[j].symbol = symbol})
    IN  History(analyzed[i].series)

RefreshCompleted == pc = "idle" /\ status \in {"table", "no_valid_data"}

(***************************************************************************)
(* C1: add_symbol is idempotent-safe: adding a symbol that is already in   *)
(* the owner's watchlist leaves the stored watchlist unchanged and reports *)
(* "already exists"; hence no owner's watchlist ever holds a symbol twice. *)
(***************************************************************************)
NoDuplicateSymbols ==
    \A i, j \in 1..Len(user_symbols) : user_symbols[i] = user_symbols[j] => i = j

SecondAddReportsExists ==
    \A t \in SymbolInputs :
        (/\ ClickAddSymbol(t)
         /\ \E i \in 1..Len(user_symbols) :
               user_symbols[i] = [user_id |-> user_id, symbol |-> Upper(t)])
        => (user_symbols' = user_symbols /\ notice' = "already exists")

\* C1: a repeated add_symbol changes nothing and reports "already exists"; no
\* watchlist holds a symbol twice.
C1_AddSymbolIdempotent == [][SecondAddReportsExists]_vars /\ []NoDuplicateSymbols

(***************************************************************************)
(* C2: a refresh that completes shows exactly one row for each watchlist   *)
(* symbol whose fetch returned a non-empty series and no row for a symbol  *)
(* whose fetch returned an empty series; analyze_stock never returns a     *)
(* MetricRow for an empty series.                                          *)
(***************************************************************************)
EmptyFetchGivesNoRow ==
    \A i \in 1..Len(analyzed) :
        History(analyzed[i].series) = << >> => analyzed[i].kind = "none"

\* C2: after a completed refresh, one row per watchlist symbol with a non-empty
\* fetch, none for an empty fetch; an empty series never yields a row.
C2_OneRowPerNonEmptySymbol ==
    /\ EmptyFetchGivesNoRow
    /\ RefreshCompleted =>
          \A i \in 1..Len(symbols) :
              RowsFor(df, symbols[i]) =
                  (IF FetchedFor(symbols[i]) = << >> THEN 0 ELSE 1)

(***************************************************************************)
(* C3: the table is ordered by Volume_Change descending, before and after  *)
(* the rounding to 2 decimals.  As stated: every adjacent pair satisfies   *)
(* earlier >= later.  As the code has it: that holds for the pairs whose   *)
(* two values are numbers; the rows without a number (NaN) come last.      *)
(***************************************************************************)
TableShown == pc = "idle" /\ status = "table"

Sorted == pc = "format" \/ TableShown

\* C3 as stated: every adjacent pair of rows is in descending Volume_Change order.
C3_AdjacentDescending ==
    Sorted => \A i \in 1..(Len(df) - 1) :
                  QGe(df[i].Volume_Change, df[i + 1].Volume_Change)

\* C3 as the code has it: adjacent rows are in descending order, or the later
\* one has no number; raw (pc = "format") and rounded (table shown).
C3_DescendingNumbersThenNaN ==
    Sorted => \A i \in 1..(Len(df) - 1) :
                  \/ QGe(df[i].Volume_Change, df[i + 1].Volume_Change)
                  \/ IsNaN(df[i + 1].Volume_Change)

C3_Witness ==
    /\ TableShown
    /\ Len(df) = 2
    /\ df[1].Symbol # results[1].Symbol
    /\ IsNaN(df[2].Volume_Change)
    /\ IsPositive(df[1].Volume_Change)

(***************************************************************************)
(* C4: rows with equal Volume_Change keep their fetch order (a stable      *)
(* sort).  As the code has it: the sorted frame holds exactly the fetched  *)
(* rows, rows with equal Volume_Change next to each other, in an order     *)
(* that the fetch order does not determine.                                *)
(***************************************************************************)
RECURSIVE SymbolsWithKey(_, _)
SymbolsWithKey(frame, k) ==
    IF frame = << >> THEN << >>
    ELSE IF QEq(Head(frame).Volume_Change, k)
         THEN << Head(frame).Symbol >> \o SymbolsWithKey(Tail(frame), k)
         ELSE SymbolsWithKey(Tail(frame), k)

IsConstantSeries(hist) ==
    /\ Len(hist) >= Window
    /\ YtdRows(hist) # {}
    /\ hist[1].close > 0 /\ hist[1].volume > 0
    /\ \A i \in 1..Len(hist) :
           hist[i].close = hist[1].close /\ hist[i].volume = hist[1].volume

EmptyAndConstant(x, y) ==
    /\ TableShown
    /\ Len(symbols) = 2
    /\ x # y
    /\ {symbols[1], symbols[2]} = {x, y}
    /\ FetchedFor(x) = << >>
    /\ IsConstantSeries(FetchedFor(y))

\* C5: empty fetch for one symbol, constant series for the other: one row, all
\* three percentages 0, counters 1 / 0 / 0.
C5_ConstantSeriesScenario ==
    \A x, y \in Symbols :
        EmptyAndConstant(x, y) =>
            /\ Len(df) = 1
            /\ df[1].Symbol = y
            /\ df[1].Daily_Change = Zero
            /\ df[1].Volume_Change = Zero
            /\ df[1].YTD_Return = Zero
            /\ metrics = [total |-> 1, positive_daily |-> 0, positive_volume |-> 0]

C5_Witness == EmptyAndConstant("X", "Y") /\ Len(FetchedFor("Y")) > Window

(***************************************************************************)
(* C6: verify_user("pranav", "learn to code") is an owner id and           *)
(* verify_user("pranav", "wrong") is None.  As stated: in the store as     *)
(* init_db leaves it.  As the code has it: init_db creates no user, so     *)
(* both are None until "pranav" is registered; once "pranav" is registered *)
(* with "learn to code", the first is that user's id and the second None.  *)
(***************************************************************************)
Registered(username, password) ==
    \E i \in 1..Len(users) :
        users[i].username = username /\ users[i].password = hash_password(password)

UserIds == {users[i].id : i \in 1..Len(users)}

\* C6 as stated: in every state of the store "pranav" / "learn to code" verifies
\* and "pranav" / "wrong" does not.
C6_SeededCredentials ==
    /\ verify_user(users, "pranav", "learn to code") # None
    /\ verify_user(users, "pranav", "wrong") = None

\* C6 as the code has it: that holds once "pranav" is registered with "learn to
\* code"; with no "pranav" row both calls return None.
C6_CredentialsOnceRegistered ==
    /\ Registered("pranav", "learn to code") =>
          /\ verify_user(users, "pranav", "learn to code") \in UserIds
          /\ verify_user(users, "pranav", "learn to code") # None
          /\ verify_user(users, "pranav", "wrong") = None
    /\ ~(\E i \in 1..Len(users) : users[i].username = "pranav") =>
          /\ verify_user(users, "pranav", "learn to code") = None
          /\ verify_user(users, "pranav", "wrong") = None

C6_Witness ==
    /\ Registered("pranav", "learn to code")
    /\ Len(users) = 2
    /\ logged_in
    /\ user_id = verify_user(users, "pranav", "learn to code")
    /\ notice = "Logged in successfully!"

(***************************************************************************)
(* C7: a refresh calls analyze_stock for the watchlist's symbols one at a  *)
(* time in watchlist order and reaches the table step only after all of    *)
(* them.  As stated: a symbol that fails does not keep the remaining ones  *)
(* from being processed.  As the code has it: the loop has no handler, so  *)
(* the first failing symbol ends the refresh; the table step is reached    *)
(* only when no symbol failed.                                             *)
(***************************************************************************)
InWatchlistOrder ==
    /\ Len(analyzed) <= Len(symbols)
    /\ \A i \in 1..Len(analyzed) : analyzed[i].symbol = symbols[i]
    /\ pc = "analyze" => Len(analyzed) = idx - 1

TableStep == pc \in {"sort", "format"} \/ RefreshCompleted

Failed == pc = "idle" /\ status = "exception"

\* C7 as stated: calls in watchlist order, and every symbol has been processed
\* when the run reaches the table step or has had a failure.
C7_FailureDoesNotStopTheRest ==
    /\ InWatchlistOrder
    /\ (TableStep \/ Failed) => Len(analyzed) = Len(symbols)

\* C7 as the code has it: calls in watchlist order; the table step is reached
\* after all symbols, none of which failed; a failure is the last call of its run.
C7_FirstFailureEndsRefresh ==
    /\ InWatchlistOrder
    /\ TableStep =>
          /\ Len(analyzed) = Len(symbols)
          /\ \A i \in 1..Len(analyzed) : analyzed[i].kind # "error"
    /\ Failed =>
          /\ analyzed # << >>
          /\ analyzed[Len(analyzed)].kind = "error"
          /\ idx = Len(analyzed)
          /\ df = << >> /\ metrics = NoMetrics

C7_Witness ==
    /\ Failed
    /\ Len(symbols) = 2
    /\ Len(analyzed) = 1
    /\ symbols[1] # symbols[2]

(***************************************************************************)
(* C8: for a non-empty series with no observation on or after January 1 of *)
(* the current year analyze_stock returns neither a row nor None: it       *)
(* raises, and the refresh loop does not catch it (the run ends there).    *)
(***************************************************************************)
NoYtdObservation(hist) == hist # << >> /\ \A i \in 1..Len(hist) : hist[i].date < ytd_start

\* C8: a non-empty series with no row of the current year makes analyze_stock
\* raise, and the run that called it ends with that call, without a table.
C8_YtdLookupErrorPropagates ==
    /\ \A n \in SeriesNames :
           NoYtdObservation(History(n)) =>
               \A s \in Symbols : analyze_stock(s, History(n)).kind = "error"
    /\ \A i \in 1..Len(analyzed) :
           NoYtdObservation(History(analyzed[i].series)) =>
               /\ analyzed[i].kind = "error"
               /\ i = Len(analyzed)
               /\ Failed
               /\ Len(results) < i

C8_Witness ==
    /\ Failed
    /\ Len(analyzed) = 2
    /\ NoYtdObservation(History(analyzed[2].series))
    /\ Len(results) = 1

(***************************************************************************)
(* C9: the three counters are the number of rows, the number of rows with  *)
(* daily change > 0 and the number of rows with volume change > 0.  As     *)
(* stated: of the MetricRows' values.  As the code has it: of the values   *)
(* as displayed, after rounding to 2 decimals (lines 175, 178, then 190,   *)
(* 192).                                                                   *)
(***************************************************************************)
CountRows(rows, P(_)) == Cardinality({i \in 1..Len(rows) : P(rows[i])})

RawDailyPositive(r) == QGt(r.Daily_Change, Zero)

RawVolumePositive(r) == QGt(r.Volume_Change, Zero)

ShownDailyPositive(r) == QGt(Round(r.Daily_Change, 2), Zero)

ShownVolumePositive(r) == QGt(Round(r.Volume_Change, 2), Zero)

\* C9 as stated: the counters count the MetricRows with a value > 0.
C9_CountersOfRawValues ==
    TableShown =>
        /\ metrics.total = Len(df)
        /\ metrics.positive_daily = CountRows(results, RawDailyPositive)
        /\ metrics.positive_volume = CountRows(results, RawVolumePositive)

\* C9 as the code has it: the counters count the rows whose value rounded to 2
\* decimals is > 0; each lies between 0 and the total.
C9_CountersOfShownValues ==
    TableShown =>
        /\ metrics.total = Len(df) /\ metrics.total = Len(results)
        /\ metrics.positive_daily = CountRows(results, ShownDailyPositive)
        /\ metrics.positive_volume = CountRows(results, ShownVolumePositive)
        /\ metrics.positive_daily \in 0..metrics.total
        /\ metrics.positive_volume \in 0..metrics.total

C9_Witness ==
    /\ TableShown
    /\ metrics = [total |-> 2, positive_daily |-> 1, positive_volume |-> 1]
    /\ CountRows(results, RawDailyPositive) = 2
    /\ CountRows(results, RawVolumePositive) = 2

(***************************************************************************)
(* C10: the session.  logged_in holds exactly when user_id is the id of a  *)
(* users row, set by a login whose verify_user succeeded; the tracker page *)
(* and the watchlist operations run only while logged_in; a failed login   *)
(* or a registration leaves logged_in and user_id alone; the logout branch *)
(* resets logged_in to False and user_id to None.                          *)
(***************************************************************************)
SessionInvariant ==
    /\ logged_in \in BOOLEAN
    /\ logged_in <=> user_id # None
    /\ logged_in => user_id \in UserIds
    /\ pc # "idle" => logged_in
    /\ status = "login" <=> ~logged_in

SessionSteps ==
    /\ user_symbols' # user_symbols => logged_in
    /\ \A u \in Usernames, p \in Passwords :
           (ClickLogin(u, p) /\ verify_user(users, u, p) = None) => UNCHANGED session
    /\ \A r \in Registrations : ClickRegister(r[1], r[2]) => UNCHANGED session
    /\ (~logged_in /\ logged_in') =>
           \E u \in Usernames, p \in Passwords :
               /\ ClickLogin(u, p)
               /\ verify_user(users, u, p) # None
               /\ user_id' = verify_user(users, u, p)
    /\ (logged_in /\ user_id' # user_id) => (~logged_in' /\ user_id' = None)
    /\ (logged_in /\ ~logged_in') =>
           \/ ClickLogout
           \/ (logout_clicked /\ (LoopExit \/ FormatAndShow))
    /\ ((ClickLogout \/ logout_clicked) /\ pc' = "idle" /\ status' # "exception")
           => (~logged_in' /\ user_id' = None)

====
